---- MODULE Spec2Model ----
(***************************************************************************)
(* dynamotree: hierarchical storage on a table with a hash key "Key" and a *)
(* range key "Child".  Go strings are modelled as sequences of bytes, so   *)
(* that strings.Contains, HasPrefix, Join and Split and the byte order of  *)
(* the range key are computed, not assumed.                                *)
(***************************************************************************)
EXTENDS Integers, Sequences, FiniteSets, TLC

(***************************************************************************)
(* Byte strings used by the program and by the inputs.                     *)
(***************************************************************************)
\* "¦" is U+00A6, which the Go source file holds as the UTF-8 bytes C2 A6.
DefaultSpecialCharacter == <<194, 166>>

EmptyString == <<>>

AttrKey == <<75, 101, 121>>

AttrChild == <<67, 104, 105, 108, 100>>

StrX == <<88>>

StrK == <<75>>

StrA == <<97>>

StrB == <<98>>

StrC == <<99>>

StrName == <<78, 97, 109, 101>>

StrAlice == <<97, 108, 105, 99, 101>>

StrBob == <<98, 111, 98>>

StrFoo == <<102, 111, 111>>

StrFooCap == <<70, 111, 111>>

StrBar == <<66, 97, 114>>

StrMarshalFailPlease == <<77, 70>>

StrUnmarshalFailPlease == <<85, 70>>

StrTrue == <<1>>

StrFalse == <<0>>

(***************************************************************************)
(* Go errors.                                                              *)
(***************************************************************************)
Nil == "nil"

ErrNotFound == "not found"

ErrNotLink == "not a link"

ErrReservedCharacterInKey == "A key part contains the reserved character"

ErrReservedCharacterInAttribute == "An attribute name starts with the reserved string"

ErrCodec == "could not grob the frob"

ErrStore == "store error"

\* The outcome of a call that never returns (unbounded recursion).
Diverges == "never returns"

(***************************************************************************)
(* package strings                                                         *)
(***************************************************************************)
HasPrefix(s, prefix) ==
    /\ Len(prefix) <= Len(s)
    /\ SubSeq(s, 1, Len(prefix)) = prefix

\* The least index at which substr occurs in s, 0 when it does not occur.
Index(s, substr) ==
    LET hits == {i \in 1..(Len(s) - Len(substr) + 1) :
                    SubSeq(s, i, i + Len(substr) - 1) = substr}
    IN  IF hits = {} THEN 0 ELSE CHOOSE i \in hits : \A j \in hits : i <= j

Contains(s, substr) == Len(substr) = 0 \/ Index(s, substr) # 0

RECURSIVE Join(_, _)
Join(elems, sep) ==
    IF Len(elems) = 0 THEN EmptyString
    ELSE IF Len(elems) = 1 THEN elems[1]
    ELSE elems[1] \o sep \o Join(Tail(elems), sep)

\* strings.Split for a non-empty separator: cuts at the leftmost
\* non-overlapping occurrences of sep.
RECURSIVE Split(_, _)
Split(s, sep) ==
    LET i == Index(s, sep)
    IN  IF i = 0 THEN <<s>>
        ELSE <<SubSeq(s, 1, i - 1)>>
                 \o Split(SubSeq(s, i + Len(sep), Len(s)), sep)

\* Byte-wise order of two strings: the order of the range key.
RECURSIVE StrLess(_, _)
StrLess(s, t) ==
    IF Len(t) = 0 THEN FALSE
    ELSE IF Len(s) = 0 THEN TRUE
    ELSE IF s[1] # t[1] THEN s[1] < t[1]
    ELSE StrLess(Tail(s), Tail(t))


(***************************************************************************)
(* Storable values.  A value is a Go struct: its fields, each a string or  *)
(* a bool, and the fields tagged omitempty.  The two methods are those of  *)
(* AccountT, the Storable of the package's tests.                          *)
(***************************************************************************)
GoString(bytes) == [string |-> bytes]

GoBool(bytes) == [bool |-> bytes]

IsZeroValue(g) ==
    IF "string" \in DOMAIN g THEN g.string = EmptyString ELSE g.bool = StrFalse

\* dynamodbattribute.ConvertToMap: one attribute per field, named as the
\* field, a string as S and a bool as BOOL; an empty omitempty field is left out.
ConvertToMap(a) ==
    [n \in {f \in DOMAIN a.fields :
               ~(f \in a.omitempty /\ IsZeroValue(a.fields[f]))} |->
        IF "string" \in DOMAIN a.fields[n]
        THEN [S |-> a.fields[n].string]
        ELSE [BOOL |-> a.fields[n].bool]]

\* dynamodbattribute.ConvertFromMap: every field of ob that the item names
\* with an attribute of the field's type takes the attribute's value; the
\* attributes that name no field are ignored.
ConvertFromMap(item, ob) ==
    [ob EXCEPT !.fields =
        [n \in DOMAIN ob.fields |->
            IF n \in DOMAIN item /\ "string" \in DOMAIN ob.fields[n]
                                 /\ "S" \in DOMAIN item[n]
            THEN GoString(item[n].S)
            ELSE IF n \in DOMAIN item /\ "bool" \in DOMAIN ob.fields[n]
                                      /\ "BOOL" \in DOMAIN item[n]
            THEN GoBool(item[n].BOOL)
            ELSE ob.fields[n]]]

MarshalDynamoDB(a) ==
    IF /\ StrMarshalFailPlease \in DOMAIN a.fields
       /\ a.fields[StrMarshalFailPlease] = GoBool(StrTrue)
    THEN [err |-> ErrCodec, attributes |-> <<>>]
    ELSE [err |-> Nil, attributes |-> ConvertToMap(a)]

UnmarshalDynamoDB(ob, item) ==
    IF /\ StrUnmarshalFailPlease \in DOMAIN item
       /\ item[StrUnmarshalFailPlease] = [BOOL |-> StrTrue]
    THEN [err |-> ErrCodec, val |-> ob]
    ELSE [err |-> Nil, val |-> ConvertFromMap(item, ob)]

\* The value a caller passes to Get to be filled in: the zero value of a type.
ZeroValue(a) ==
    [a EXCEPT !.fields =
        [n \in DOMAIN a.fields |->
            IF "string" \in DOMAIN a.fields[n]
            THEN GoString(EmptyString) ELSE GoBool(StrFalse)]]

\* No value: the ob of a call that has none.
NoValue == [fields |-> <<>>, omitempty |-> {}]

(***************************************************************************)
(* The table: the items of the DynamoDB table, by (Key, Child).            *)
(***************************************************************************)
ItemKey(item) == <<item[AttrKey].S, item[AttrChild].S>>

PutRequest(item) == [PutRequest |-> item]

DeleteRequest(key) == [DeleteRequest |-> key]

\* A store that merges the attributes of a put into the item it holds
\* (a variant for C26).
ApplyRequestMerging(tbl, req) ==
    IF "PutRequest" \in DOMAIN req
    THEN (ItemKey(req.PutRequest) :>
             (req.PutRequest @@ IF ItemKey(req.PutRequest) \in DOMAIN tbl
                                THEN tbl[ItemKey(req.PutRequest)] ELSE <<>>))
         @@ tbl
    ELSE [k \in (DOMAIN tbl) \ {ItemKey(req.DeleteRequest)} |-> tbl[k]]

\* One write request applied by BatchWriteItem.
ApplyRequest(tbl, req) ==
    IF "PutRequest" \in DOMAIN req
    THEN (ItemKey(req.PutRequest) :> req.PutRequest) @@ tbl
    ELSE [k \in (DOMAIN tbl) \ {ItemKey(req.DeleteRequest)} |-> tbl[k]]

RECURSIVE ApplyRequests(_, _)
ApplyRequests(tbl, reqs) ==
    IF Len(reqs) = 0 THEN tbl
    ELSE ApplyRequests(ApplyRequest(tbl, Head(reqs)), Tail(reqs))

\* GetItem: the item at (Key, Child), the empty item when there is none.
GetItem(tbl, pathKey, child) ==
    IF <<pathKey, child>> \in DOMAIN tbl THEN tbl[<<pathKey, child>>] ELSE <<>>

\* Query "#K = :key": the items of one hash key, ascending by range key.
RECURSIVE SortedChildren(_)
SortedChildren(names) ==
    IF names = {} THEN <<>>
    ELSE LET least == CHOOSE n \in names : \A m \in names \ {n} : StrLess(n, m)
         IN  <<least>> \o SortedChildren(names \ {least})

Query(tbl, pathKey) ==
    LET keys == {k \in DOMAIN tbl : k[1] = pathKey}
        names == SortedChildren({k[2] : k \in keys})
    IN  [n \in 1..Len(names) |-> tbl[<<pathKey, names[n]>>]]

(***************************************************************************)
(* Tree: what each method computes before and between its calls to the     *)
(* table.  sc is t.SpecialCharacter after t.init.                          *)
(***************************************************************************)
init(specialCharacter) ==
    IF specialCharacter = EmptyString THEN DefaultSpecialCharacter
    ELSE specialCharacter

\* The loop over the key parts with the row of the first part in the
\* partition that List reads for the root (a variant for C16).
RECURSIVE KeyLoopRootAsListed(_, _, _, _, _)
KeyLoopRootAsListed(key, sc, i, pathKey, writeRequests) ==
    IF i > Len(key)
    THEN [err |-> Nil, pathKey |-> pathKey, writeRequests |-> writeRequests]
    ELSE IF Contains(key[i], sc)
    THEN [err |-> ErrReservedCharacterInKey, pathKey |-> pathKey,
          writeRequests |-> writeRequests]
    ELSE KeyLoopRootAsListed(key, sc, i + 1, (pathKey \o sc) \o key[i],
             Append(writeRequests,
                    PutRequest((AttrKey :> [S |-> (sc \o Join(SubSeq(key, 1, i - 1), sc))
                                                     \o sc])
                               @@ (AttrChild :> [S |-> key[i]]))))

\* The loop over the key parts without the test of the parts (a variant for
\* C27).
RECURSIVE KeyLoopUnchecked(_, _, _, _, _)
KeyLoopUnchecked(key, sc, i, pathKey, writeRequests) ==
    IF i > Len(key)
    THEN [err |-> Nil, pathKey |-> pathKey, writeRequests |-> writeRequests]
    ELSE KeyLoopUnchecked(key, sc, i + 1, (pathKey \o sc) \o key[i],
                          Append(writeRequests,
                                 PutRequest((AttrKey :> [S |-> pathKey \o sc])
                                            @@ (AttrChild :> [S |-> key[i]]))))

\* The loop over the key parts that Put and PutLink share: it returns at the
\* first part that contains sc, and otherwise appends one request per part.
RECURSIVE KeyLoop(_, _, _, _, _)
KeyLoop(key, sc, i, pathKey, writeRequests) ==
    IF i > Len(key)
    THEN [err |-> Nil, pathKey |-> pathKey, writeRequests |-> writeRequests]
    ELSE IF Contains(key[i], sc)
    THEN [err |-> ErrReservedCharacterInKey, pathKey |-> pathKey,
          writeRequests |-> writeRequests]
    ELSE KeyLoop(key, sc, i + 1, (pathKey \o sc) \o key[i],
                 Append(writeRequests,
                        PutRequest((AttrKey :> [S |-> pathKey \o sc])
                                   @@ (AttrChild :> [S |-> key[i]]))))

\* Put that stores the object row in the partition of the children of key
\* (a variant for C14).
PutRequestsAmongChildren(key, item, sc) ==
    LET loop == KeyLoop(key, sc, 1, EmptyString, <<>>)
        m == MarshalDynamoDB(item)
        attributes == (AttrChild :> [S |-> sc])
                      @@ (AttrKey :> [S |-> loop.pathKey \o sc])
                      @@ m.attributes
    IN  IF loop.err # Nil THEN [err |-> loop.err, writeRequests |-> <<>>]
        ELSE IF m.err # Nil THEN [err |-> m.err, writeRequests |-> <<>>]
        ELSE IF \E fieldName \in DOMAIN attributes : HasPrefix(fieldName, sc)
        THEN [err |-> ErrReservedCharacterInAttribute, writeRequests |-> <<>>]
        ELSE [err |-> Nil,
              writeRequests |-> Append(loop.writeRequests, PutRequest(attributes))]

\* Put that calls the serializer before it looks at the key (a variant for
\* C25).
PutRequestsMarshallingFirst(key, item, sc) ==
    LET loop == KeyLoop(key, sc, 1, EmptyString, <<>>)
        m == MarshalDynamoDB(item)
        attributes == (AttrChild :> [S |-> sc])
                      @@ (AttrKey :> [S |-> loop.pathKey])
                      @@ m.attributes
    IN  IF m.err # Nil
        THEN [err |-> m.err, writeRequests |-> <<>>, marshalled |-> TRUE]
        ELSE IF loop.err # Nil
        THEN [err |-> loop.err, writeRequests |-> <<>>, marshalled |-> TRUE]
        ELSE IF \E fieldName \in DOMAIN attributes : HasPrefix(fieldName, sc)
        THEN [err |-> ErrReservedCharacterInAttribute, writeRequests |-> <<>>,
              marshalled |-> TRUE]
        ELSE [err |-> Nil,
              writeRequests |-> Append(loop.writeRequests, PutRequest(attributes)),
              marshalled |-> TRUE]

\* Put up to its first BatchWriteItem: the error it returns before any write,
\* or the write requests; marshalled says whether it has called
\* item.MarshalDynamoDB.
PutRequests(key, item, sc) ==
    LET loop == KeyLoop(key, sc, 1, EmptyString, <<>>)
        m == MarshalDynamoDB(item)
        attributes == (AttrChild :> [S |-> sc])
                      @@ (AttrKey :> [S |-> loop.pathKey])
                      @@ m.attributes
    IN  IF loop.err # Nil
        THEN [err |-> loop.err, writeRequests |-> <<>>, marshalled |-> FALSE]
        ELSE IF m.err # Nil
        THEN [err |-> m.err, writeRequests |-> <<>>, marshalled |-> TRUE]
        ELSE IF \E fieldName \in DOMAIN attributes : HasPrefix(fieldName, sc)
        THEN [err |-> ErrReservedCharacterInAttribute, writeRequests |-> <<>>,
              marshalled |-> TRUE]
        ELSE [err |-> Nil,
              writeRequests |-> Append(loop.writeRequests, PutRequest(attributes)),
              marshalled |-> TRUE]

\* PutLink without the loop over the parts of target (a variant for C8).
PutLinkRequestsUncheckedTarget(key, target, sc) ==
    LET loop == KeyLoop(key, sc, 1, EmptyString, <<>>)
        attributes == (sc :> [S |-> sc \o Join(target, sc)])
                      @@ (AttrChild :> [S |-> sc])
                      @@ (AttrKey :> [S |-> loop.pathKey])
    IN  IF loop.err # Nil THEN [err |-> loop.err, writeRequests |-> <<>>]
        ELSE [err |-> Nil,
              writeRequests |-> Append(loop.writeRequests, PutRequest(attributes))]

\* PutLink up to its first BatchWriteItem.  In the map literal a later entry
\* replaces an earlier one of the same name.
PutLinkRequests(key, target, sc) ==
    LET loop == KeyLoop(key, sc, 1, EmptyString, <<>>)
        targetPathKey == sc \o Join(target, sc)
        attributes == (sc :> [S |-> targetPathKey])
                      @@ (AttrChild :> [S |-> sc])
                      @@ (AttrKey :> [S |-> loop.pathKey])
    IN  IF loop.err # Nil THEN [err |-> loop.err, writeRequests |-> <<>>]
        ELSE IF \E n \in 1..Len(target) : Contains(target[n], sc)
        THEN [err |-> ErrReservedCharacterInKey, writeRequests |-> <<>>]
        ELSE [err |-> Nil,
              writeRequests |-> Append(loop.writeRequests, PutRequest(attributes))]

\* Delete that removes the object row and leaves the row of its containing
\* directory (a variant for C7).
DeleteRequestsObjectRowOnly(key, sc) ==
    <<DeleteRequest((AttrKey :> [S |-> sc \o Join(key, sc)])
                    @@ (AttrChild :> [S |-> sc]))>>

\* Delete that also removes the row of the containing directory in its own
\* parent (a variant for C18); key has at least two parts.
DeleteRequestsWithAncestor(key, sc) ==
    LET parent == SubSeq(key, 1, Len(key) - 1)
        pathKey == (sc \o Join(parent, sc)) \o sc
        above == IF Len(parent) = 1 THEN sc
                 ELSE (sc \o Join(SubSeq(parent, 1, Len(parent) - 1), sc)) \o sc
    IN  <<DeleteRequest((AttrKey :> [S |-> pathKey])
                        @@ (AttrChild :> [S |-> key[Len(key)]])),
          DeleteRequest((AttrKey :> [S |-> pathKey \o key[Len(key)]])
                        @@ (AttrChild :> [S |-> sc])),
          DeleteRequest((AttrKey :> [S |-> above])
                        @@ (AttrChild :> [S |-> parent[Len(parent)]]))>>

\* Delete up to its BatchWriteItem; key has at least one part (the code
\* indexes key[len(key)-1]).
DeleteRequests(key, sc) ==
    LET pathKey == (sc \o Join(SubSeq(key, 1, Len(key) - 1), sc)) \o sc
        ChildKey == key[Len(key)]
    IN  <<DeleteRequest((AttrKey :> [S |-> pathKey])
                        @@ (AttrChild :> [S |-> ChildKey])),
          DeleteRequest((AttrKey :> [S |-> pathKey \o key[Len(key)]])
                        @@ (AttrChild :> [S |-> sc]))>>

\* The step of the chunk loop of Put and PutLink.
BatchSize == 25

\* writeRequests[i:n] of the chunk loop, i counted from 0.
Chunk(writeRequests, i) ==
    LET n == IF i + BatchSize >= Len(writeRequests)
             THEN Len(writeRequests) ELSE i + BatchSize
    IN  SubSeq(writeRequests, i + 1, n)

\* Get on a table.  failAt is the GetItem call (1 for the first) that the
\* store fails, 0 when it fails none.  fuel counts the links still to follow:
\* with more hops than the table has items the chain is in a cycle, and the
\* recursion of the code does not end.
RECURSIVE GetRec(_, _, _, _, _, _, _)
GetRec(tbl, key, ob, sc, hop, failAt, fuel) ==
    LET pathKey == sc \o Join(key, sc)
        Item == GetItem(tbl, pathKey, sc)
    IN  IF hop = failAt THEN [err |-> ErrStore, val |-> ob]
        ELSE IF DOMAIN Item = {} THEN [err |-> ErrNotFound, val |-> ob]
        ELSE IF sc \in DOMAIN Item
        THEN IF fuel = 0 THEN [err |-> Diverges, val |-> ob]
             ELSE GetRec(tbl, Tail(Split(Item[sc].S, sc)), ob, sc,
                         hop + 1, failAt, fuel - 1)
        ELSE UnmarshalDynamoDB(ob, Item)

\* Get that hands the item it finds to the deserializer, a link or not
\* (a variant for C2).
GetOpWithoutLinks(tbl, key, ob, sc, failAt) ==
    LET Item == GetItem(tbl, sc \o Join(key, sc), sc)
    IN  IF failAt = 1 THEN [err |-> ErrStore, val |-> ob]
        ELSE IF DOMAIN Item = {} THEN [err |-> ErrNotFound, val |-> ob]
        ELSE UnmarshalDynamoDB(ob, Item)

\* Get that gives up with ErrNotFound when it has followed as many links as
\* the table has items (a variant for C23).
GetOpWithCycleGuard(tbl, key, ob, sc, failAt) ==
    LET r == GetRec(tbl, key, ob, sc, 1, failAt, Cardinality(DOMAIN tbl))
    IN  IF r.err = Diverges THEN [err |-> ErrNotFound, val |-> ob] ELSE r

GetOp(tbl, key, ob, sc, failAt) ==
    GetRec(tbl, key, ob, sc, 1, failAt, Cardinality(DOMAIN tbl))

\* GetLink that takes the target of whatever item it finds (a variant for C11).
GetLinkOpOfAnyItem(tbl, key, sc, storeFails) ==
    LET Item == GetItem(tbl, sc \o Join(key, sc), sc)
    IN  IF storeFails THEN [err |-> ErrStore, key |-> <<>>]
        ELSE IF DOMAIN Item = {} THEN [err |-> ErrNotFound, key |-> <<>>]
        ELSE [err |-> Nil,
              key |-> IF sc \in DOMAIN Item THEN Tail(Split(Item[sc].S, sc))
                      ELSE <<>>]

\* GetLink on a table; storeFails says whether its GetItem fails.
GetLinkOp(tbl, key, sc, storeFails) ==
    LET pathKey == sc \o Join(key, sc)
        Item == GetItem(tbl, pathKey, sc)
    IN  IF storeFails THEN [err |-> ErrStore, key |-> <<>>]
        ELSE IF DOMAIN Item = {} THEN [err |-> ErrNotFound, key |-> <<>>]
        ELSE IF sc \notin DOMAIN Item THEN [err |-> ErrNotLink, key |-> <<>>]
        ELSE [err |-> Nil, key |-> Tail(Split(Item[sc].S, sc))]

\* List that does not look at what itemFunc returns (a variant for C13).
ListOpIgnoringStop(tbl, keyPrefix, sc, stopAt, failAfter) ==
    LET Items == Query(tbl, (sc \o Join(keyPrefix, sc)) \o sc)
        delivered == IF failAfter >= 0 /\ failAfter < Len(Items)
                     THEN failAfter ELSE Len(Items)
        visit(n) == [item |-> Items[n][AttrChild].S, err |-> Nil]
    IN  IF failAfter >= 0
        THEN [n \in 1..delivered |-> visit(n)]
                 \o <<[item |-> EmptyString, err |-> ErrStore]>>
        ELSE [n \in 1..delivered |-> visit(n)]

\* List on a table: the calls of itemFunc, in order.  itemFunc returns false
\* at its call number stopAt (0: it never does).  The query delivers the
\* first failAfter items and then fails (-1: it does not fail).
ListOp(tbl, keyPrefix, sc, stopAt, failAfter) ==
    LET pathKey == (sc \o Join(keyPrefix, sc)) \o sc
        Items == Query(tbl, pathKey)
        delivered == IF failAfter >= 0 /\ failAfter < Len(Items)
                     THEN failAfter ELSE Len(Items)
        visit(n) == [item |-> Items[n][AttrChild].S, err |-> Nil]
    IN  IF stopAt >= 1 /\ stopAt <= delivered
        THEN [n \in 1..stopAt |-> visit(n)]
        ELSE IF failAfter >= 0
        THEN [n \in 1..delivered |-> visit(n)]
                 \o <<[item |-> EmptyString, err |-> ErrStore]>>
        ELSE [n \in 1..delivered |-> visit(n)]

(***************************************************************************)
(* Inputs.                                                                 *)
(***************************************************************************)
\* The BatchWriteItem calls of one run that the store answers with an error
\* or with unprocessed items (the store may do so without bound).
MaxFaults == 1

\* The values of Tree.SpecialCharacter a caller configures ("" is the default).
SpecialCharacters == {EmptyString}

CodecSpecialCharacters == {EmptyString, StrX, StrK}

\* AccountT of the tests; the names of the two omitempty fields are Xfoo and
\* FooXBar there, where "X" is the special character of the test.
AccountT(sc, name, xfoo, fooXBar, marshalFailPlease, unmarshalFailPlease) ==
    [fields |-> (StrName :> GoString(name))
                @@ ((sc \o StrFoo) :> GoString(xfoo))
                @@ ((StrFooCap \o sc \o StrBar) :> GoString(fooXBar))
                @@ (StrMarshalFailPlease :> GoBool(marshalFailPlease))
                @@ (StrUnmarshalFailPlease :> GoBool(unmarshalFailPlease)),
     omitempty |-> {sc \o StrFoo, StrFooCap \o sc \o StrBar}]

\* A Storable with a field named as the table's hash key.
KeyedT(key) ==
    [fields |-> (AttrKey :> GoString(key)), omitempty |-> {}]

Alice(sc) == AccountT(sc, StrAlice, EmptyString, EmptyString, StrFalse, StrFalse)

Bob(sc) == AccountT(sc, StrBob, EmptyString, EmptyString, StrFalse, StrFalse)

\* The keys of Put and Delete, the keys and targets of PutLink, and the keys
\* read by Get, GetLink and List.
Keys == {<<StrA>>, <<StrA, StrB>>, <<StrA, StrC>>}

LinkKeys == Keys

Targets == {<<>>, <<StrA>>, <<StrA, StrB>>}

ReadKeys == Keys \cup {<<>>}

Values(sc) == {Alice(sc)}

\* Keys and targets of which some have a part that contains sc.
CodecKeys(sc) ==
    {<<StrA>>, <<StrB>>, <<StrA, StrB \o sc \o StrC>>, <<sc, StrB>>}

CodecTargets(sc) == {<<StrA>>, <<StrA, StrB \o sc>>}

CodecValues(sc) ==
    {Alice(sc),
     AccountT(sc, StrAlice, StrBob, EmptyString, StrFalse, StrFalse),
     AccountT(sc, StrAlice, EmptyString, StrBob, StrFalse, StrFalse),
     AccountT(sc, StrAlice, EmptyString, EmptyString, StrTrue, StrFalse),
     AccountT(sc, StrAlice, EmptyString, EmptyString, StrFalse, StrTrue),
     KeyedT(StrAlice)}

(***************************************************************************)
(* State.                                                                  *)
(***************************************************************************)
VARIABLES
    SpecialCharacter,   \* Tree.SpecialCharacter
    initOnce,           \* whether Tree.initOnce has run init
    table,              \* the items of the table, by (Key, Child)
    pc,                 \* "idle", "batch" (in a retry loop), "hung"
    op,                 \* the last call: its name and arguments
    writeRequests,      \* of the call in its chunk loop
    i,                  \* of the chunk loop
    input,              \* input.RequestItems of the retry loop
    calls,              \* BatchWriteItem calls the call has made
    faults,             \* calls so far answered with an error or unprocessed items
    ret,                \* what the last call returned
    pre,                \* the table when the last call began
    peer                \* a second caller of the same Tree, while it does not run

vars == <<SpecialCharacter, initOnce, table, pc, op, writeRequests, i, input,
          calls, faults, ret, pre, peer>>

Call(name, key, item, target) ==
    [name |-> name, key |-> key, item |-> item, target |-> target]

Ret(err, val, key, visits) ==
    [err |-> err, val |-> val, key |-> key, visits |-> visits]

Error(err) == Ret(err, NoValue, <<>>, <<>>)

Pending == Error("pending")

\* t.SpecialCharacter after t.initOnce.Do(t.init)
SC == IF initOnce THEN SpecialCharacter ELSE init(SpecialCharacter)

Once ==
    /\ initOnce' = TRUE
    /\ SpecialCharacter' = SC

InitOver(specialCharacters) ==
    /\ SpecialCharacter \in specialCharacters
    /\ initOnce = FALSE
    /\ table = <<>>
    /\ pc = "idle"
    /\ op = Call("none", <<>>, NoValue, <<>>)
    /\ writeRequests = <<>>
    /\ i = 0
    /\ input = <<>>
    /\ calls = 0
    /\ faults = 0
    /\ ret = Error(Nil)
    /\ pre = <<>>
    /\ peer = [pc |-> "idle", op |-> Call("none", <<>>, NoValue, <<>>),
               writeRequests |-> <<>>, i |-> 0, input |-> <<>>, calls |-> 0,
               ret |-> Error(Nil), pre |-> <<>>]

\* A call returns before its first BatchWriteItem.
Return(r) ==
    /\ pc' = "idle"
    /\ ret' = r
    /\ writeRequests' = <<>>
    /\ i' = 0
    /\ input' = <<>>

\* A call enters its chunk loop with the requests it computed.
Enter(requests, first) ==
    /\ pc' = "batch"
    /\ ret' = Pending
    /\ writeRequests' = requests
    /\ i' = 0
    /\ input' = first

\* Put that writes the rows of the key parts before it looks at the
\* attributes of the item (a variant for C10).
PutWritingEdgesFirst(key, item) ==
    /\ pc = "idle"
    /\ Once
    /\ op' = Call("Put", key, item, <<>>)
    /\ pre' = table
    /\ LET loop == KeyLoop(key, SC, 1, EmptyString, <<>>)
           r == PutRequests(key, item, SC)
       IN  IF loop.err # Nil
           THEN calls' = 0 /\ table' = table /\ Return(Error(loop.err))
           ELSE IF r.err # Nil
           THEN /\ calls' = 1
                /\ table' = ApplyRequests(table, loop.writeRequests)
                /\ Return(Error(r.err))
           ELSE /\ calls' = 0 /\ table' = table
                /\ Enter(r.writeRequests, Chunk(r.writeRequests, 0))
    /\ UNCHANGED faults
    /\ UNCHANGED peer

\* Put that reports a failure of the serializer as a key it cannot store
\* (a variant for C15).
PutHidingCodecError(key, item) ==
    /\ pc = "idle"
    /\ Once
    /\ op' = Call("Put", key, item, <<>>)
    /\ pre' = table
    /\ calls' = 0
    /\ LET r == PutRequests(key, item, SC)
       IN  IF r.err = ErrCodec THEN Return(Error(ErrReservedCharacterInKey))
           ELSE IF r.err # Nil THEN Return(Error(r.err))
           ELSE Enter(r.writeRequests, Chunk(r.writeRequests, 0))
    /\ UNCHANGED <<table, faults>>
    /\ UNCHANGED peer

Put(key, item) ==
    /\ pc = "idle"
    /\ Once
    /\ op' = Call("Put", key, item, <<>>)
    /\ pre' = table
    /\ calls' = 0
    /\ LET r == PutRequests(key, item, SC)
       IN  IF r.err # Nil THEN Return(Error(r.err))
           ELSE Enter(r.writeRequests, Chunk(r.writeRequests, 0))
    /\ UNCHANGED <<table, faults>>
    /\ UNCHANGED peer

PutLink(key, target) ==
    /\ pc = "idle"
    /\ Once
    /\ op' = Call("PutLink", key, NoValue, target)
    /\ pre' = table
    /\ calls' = 0
    /\ LET r == PutLinkRequests(key, target, SC)
       IN  IF r.err # Nil THEN Return(Error(r.err))
           ELSE Enter(r.writeRequests, Chunk(r.writeRequests, 0))
    /\ UNCHANGED <<table, faults>>
    /\ UNCHANGED peer

Delete(key) ==
    /\ pc = "idle"
    /\ Once
    /\ op' = Call("Delete", key, NoValue, <<>>)
    /\ pre' = table
    /\ calls' = 0
    /\ Enter(DeleteRequests(key, SC), DeleteRequests(key, SC))
    /\ UNCHANGED <<table, faults>>
    /\ UNCHANGED peer

\* One BatchWriteItem after which the call goes on without the items the
\* store left unprocessed (a variant for C19).
BatchWriteItemOnce(processed) ==
    /\ pc = "batch"
    /\ calls' = calls + 1
    /\ IF processed = 1..Len(input) THEN faults' = faults
       ELSE faults < MaxFaults /\ faults' = faults + 1
    /\ table' = ApplyRequests(table,
                     SelectSeq(input, LAMBDA r :
                         \E n \in processed : input[n] = r))
    /\ IF op.name # "Delete" /\ i + BatchSize < Len(writeRequests)
       THEN /\ i' = i + BatchSize
            /\ input' = Chunk(writeRequests, i + BatchSize)
            /\ UNCHANGED <<pc, ret, writeRequests>>
       ELSE Return(Error(Nil))
    /\ UNCHANGED <<SpecialCharacter, initOnce, op, pre>>
    /\ UNCHANGED peer

\* One BatchWriteItem that the store accepts: it applies the requests at the
\* positions in processed and reports the others as unprocessed.
BatchWriteItem(processed) ==
    /\ pc = "batch"
    /\ calls' = calls + 1
    /\ IF processed = 1..Len(input) THEN faults' = faults
       ELSE faults < MaxFaults /\ faults' = faults + 1
    /\ LET done == [n \in 1..Len(input) |-> n \in processed]
           pick(keep) == SelectSeq([n \in 1..Len(input) |-> <<n, input[n]>>],
                                   LAMBDA e : done[e[1]] = keep)
           applied == [n \in 1..Len(pick(TRUE)) |-> pick(TRUE)[n][2]]
           UnprocessedItems == [n \in 1..Len(pick(FALSE)) |-> pick(FALSE)[n][2]]
       IN  /\ table' = ApplyRequests(table, applied)
           /\ IF Len(UnprocessedItems) # 0
              THEN /\ input' = UnprocessedItems
                   /\ UNCHANGED <<pc, ret, writeRequests, i>>
              ELSE IF op.name # "Delete" /\ i + BatchSize < Len(writeRequests)
              THEN /\ i' = i + BatchSize
                   /\ input' = Chunk(writeRequests, i + BatchSize)
                   /\ UNCHANGED <<pc, ret, writeRequests>>
              ELSE Return(Error(Nil))
    /\ UNCHANGED <<SpecialCharacter, initOnce, op, pre>>
    /\ UNCHANGED peer

\* One BatchWriteItem that returns an error, after which the call undoes what
\* its earlier calls wrote (a variant for C21).
BatchWriteItemErrorRolledBack ==
    /\ pc = "batch"
    /\ faults < MaxFaults
    /\ faults' = faults + 1
    /\ calls' = calls + 1
    /\ table' = pre
    /\ Return(Error(ErrStore))
    /\ UNCHANGED <<SpecialCharacter, initOnce, op, pre>>
    /\ UNCHANGED peer

\* One BatchWriteItem that returns an error: the call returns it.
BatchWriteItemError ==
    /\ pc = "batch"
    /\ faults < MaxFaults
    /\ faults' = faults + 1
    /\ calls' = calls + 1
    /\ Return(Error(ErrStore))
    /\ UNCHANGED <<SpecialCharacter, initOnce, table, op, pre>>
    /\ UNCHANGED peer

Get(key, ob, failAt) ==
    /\ pc = "idle"
    /\ Once
    /\ op' = Call("Get", key, ob, <<>>)
    /\ pre' = table
    /\ calls' = 0
    /\ LET r == GetOp(table, key, ob, SC, failAt)
       IN  /\ ret' = Ret(r.err, r.val, <<>>, <<>>)
           /\ pc' = IF r.err = Diverges THEN "hung" ELSE "idle"
    /\ UNCHANGED <<table, writeRequests, i, input, faults>>
    /\ UNCHANGED peer

GetLink(key, storeFails) ==
    /\ pc = "idle"
    /\ Once
    /\ op' = Call("GetLink", key, NoValue, <<>>)
    /\ pre' = table
    /\ calls' = 0
    /\ LET r == GetLinkOp(table, key, SC, storeFails)
       IN  ret' = Ret(r.err, NoValue, r.key, <<>>)
    /\ UNCHANGED <<table, pc, writeRequests, i, input, faults>>
    /\ UNCHANGED peer

List(keyPrefix, stopAt, failAfter) ==
    /\ pc = "idle"
    /\ Once
    /\ op' = Call("List", keyPrefix, NoValue, <<>>)
    /\ pre' = table
    /\ calls' = 0
    /\ ret' = Ret(Nil, NoValue, <<>>, ListOp(table, keyPrefix, SC, stopAt, failAfter))
    /\ UNCHANGED <<table, pc, writeRequests, i, input, faults>>
    /\ UNCHANGED peer

(***************************************************************************)
(* The tree of the default special character, with keys of up to two      *)
(* parts, links and link chains.                                           *)
(***************************************************************************)
Init == InitOver(SpecialCharacters)

CallPut == \E key \in Keys, item \in Values(SC) : Put(key, item)

CallPutLink == \E key \in LinkKeys, target \in Targets : PutLink(key, target)

CallDelete == \E key \in Keys : Delete(key)

StoreWrites == \E processed \in SUBSET (1..Len(input)) : BatchWriteItem(processed)

StoreFails == BatchWriteItemError

CallGet ==
    \E key \in ReadKeys, ob \in {ZeroValue(v) : v \in Values(SC)}, failAt \in 0..2 :
        Get(key, ob, failAt)

CallGetLink == \E key \in ReadKeys, storeFails \in BOOLEAN : GetLink(key, storeFails)

CallList ==
    \E keyPrefix \in ReadKeys, stopAt \in 0..1, failAfter \in -1..1 :
        List(keyPrefix, stopAt, failAfter)

Next ==
    \/ CallPut
    \/ CallPutLink
    \/ CallDelete
    \/ StoreWrites
    \/ StoreFails
    \/ CallGet
    \/ CallGetLink
    \/ CallList

Spec == Init /\ [][Next]_vars

(***************************************************************************)
(* The trees of three special characters, with keys, targets and values    *)
(* that the validation of Put and PutLink accepts or rejects.              *)
(***************************************************************************)
CodecInit == InitOver(CodecSpecialCharacters)

CodecPut == \E key \in CodecKeys(SC), item \in CodecValues(SC) : Put(key, item)

CodecPutLink ==
    \E key \in CodecKeys(SC), target \in CodecTargets(SC) : PutLink(key, target)

CodecDelete == Delete(<<StrA>>)

CodecGet ==
    \E key \in CodecKeys(SC), ob \in {ZeroValue(v) : v \in CodecValues(SC)},
       failAt \in 0..1 : Get(key, ob, failAt)

CodecGetLink == \E storeFails \in BOOLEAN : GetLink(<<StrA>>, storeFails)

CodecList ==
    \E keyPrefix \in {<<>>, <<StrA>>}, stopAt \in 0..1, failAfter \in -1..1 :
        List(keyPrefix, stopAt, failAfter)

CodecNext ==
    \/ CodecPut
    \/ CodecPutLink
    \/ CodecDelete
    \/ StoreWrites
    \/ StoreFails
    \/ CodecGet
    \/ CodecGetLink
    \/ CodecList

CodecSpec == CodecInit /\ [][CodecNext]_vars

(***************************************************************************)
(* The tree of the default special character with paths of two, three and *)
(* fifty parts (the path of TestLongPath has fifty): Put and PutLink of    *)
(* the long path run the chunk loop three times.  The store processes all  *)
(* of a batch, none of it, or all but its last item.                       *)
(***************************************************************************)
DeepPath(n) == [k \in 1..n |-> StrA]

LongPath == DeepPath(2 * BatchSize)

DeepKeys == {DeepPath(2), DeepPath(3), LongPath}

DeepLinkKeys == {LongPath}

Responses(n) == {1..n, {}, 1..(n - 1)}

DeepInit == InitOver(SpecialCharacters)

DeepPut == \E key \in DeepKeys : Put(key, Alice(SC))

DeepPutLink == \E key \in DeepLinkKeys : PutLink(key, DeepPath(3))

DeepDelete == \E key \in DeepKeys : Delete(key)

DeepStoreWrites == \E processed \in Responses(Len(input)) : BatchWriteItem(processed)

DeepStoreFails == BatchWriteItemError

DeepNext ==
    \/ DeepPut
    \/ DeepPutLink
    \/ DeepDelete
    \/ DeepStoreWrites
    \/ DeepStoreFails

DeepSpec == DeepInit /\ [][DeepNext]_vars

(***************************************************************************)
(* The retry loop with a store that never returns an error and that may    *)
(* leave any part of a batch unprocessed any number of times.  The count   *)
(* of the calls stops at MaxCalls; the loop does not.                      *)
(***************************************************************************)
MaxCalls == 3

\* A retry loop that gives up with an error at its call number MaxCalls
\* (a variant for C20).
BatchWriteItemBounded(processed) ==
    /\ pc = "batch"
    /\ calls' = IF calls < MaxCalls THEN calls + 1 ELSE calls
    /\ LET rest == SelectSeq(input, LAMBDA r : ~\E n \in processed : input[n] = r)
           done == SelectSeq(input, LAMBDA r : \E n \in processed : input[n] = r)
       IN  /\ table' = ApplyRequests(table, done)
           /\ IF Len(rest) # 0 /\ calls + 1 >= MaxCalls
              THEN Return(Error(ErrStore))
              ELSE IF Len(rest) # 0
              THEN input' = rest /\ UNCHANGED <<pc, ret, writeRequests, i>>
              ELSE IF op.name # "Delete" /\ i + BatchSize < Len(writeRequests)
              THEN /\ i' = i + BatchSize
                   /\ input' = Chunk(writeRequests, i + BatchSize)
                   /\ UNCHANGED <<pc, ret, writeRequests>>
              ELSE Return(Error(Nil))
    /\ UNCHANGED <<SpecialCharacter, initOnce, op, pre, faults>>
    /\ UNCHANGED peer

\* A store that processes a batch whole or not at all (a variant for C22).
BatchWriteItemAllOrNothing(processed) ==
    /\ pc = "batch"
    /\ processed \in {{}, 1..Len(input)}
    /\ calls' = IF calls < MaxCalls THEN calls + 1 ELSE calls
    /\ table' = IF processed = {} THEN table ELSE ApplyRequests(table, input)
    /\ IF processed = {}
       THEN UNCHANGED <<pc, ret, writeRequests, i, input>>
       ELSE IF op.name # "Delete" /\ i + BatchSize < Len(writeRequests)
       THEN /\ i' = i + BatchSize
            /\ input' = Chunk(writeRequests, i + BatchSize)
            /\ UNCHANGED <<pc, ret, writeRequests>>
       ELSE Return(Error(Nil))
    /\ UNCHANGED <<SpecialCharacter, initOnce, op, pre, faults>>
    /\ UNCHANGED peer

\* One BatchWriteItem of the retry loop that returns no error: the store
\* applies the requests at the positions in processed and reports the
\* others as unprocessed; the loop goes on with them, however often it has.
BatchWriteItemRetried(processed) ==
    /\ pc = "batch"
    /\ calls' = IF calls < MaxCalls THEN calls + 1 ELSE calls
    /\ LET UnprocessedItems ==
               SelectSeq(input, LAMBDA r : ~\E n \in processed : input[n] = r)
           applied == SelectSeq(input, LAMBDA r : \E n \in processed : input[n] = r)
       IN  /\ table' = ApplyRequests(table, applied)
           /\ IF Len(UnprocessedItems) # 0
              THEN /\ input' = UnprocessedItems
                   /\ UNCHANGED <<pc, ret, writeRequests, i>>
              ELSE IF op.name # "Delete" /\ i + BatchSize < Len(writeRequests)
              THEN /\ i' = i + BatchSize
                   /\ input' = Chunk(writeRequests, i + BatchSize)
                   /\ UNCHANGED <<pc, ret, writeRequests>>
              ELSE Return(Error(Nil))
    /\ UNCHANGED <<SpecialCharacter, initOnce, op, pre, faults>>
    /\ UNCHANGED peer

LiveKeys == {<<StrA>>, <<StrA, StrC>>}

LiveInit == InitOver(SpecialCharacters)

LivePut == \E key \in LiveKeys : Put(key, Alice(SC))

LivePutLink == PutLink(<<StrA, StrC>>, <<StrA>>)

LiveDelete == \E key \in LiveKeys : Delete(key)

\* The store processes at least one item of the batch.
LiveProgress ==
    \E processed \in (SUBSET (1..Len(input))) \ {{}} : BatchWriteItemRetried(processed)

\* The store reports the whole batch as unprocessed.
LiveStall == BatchWriteItemRetried({})

LiveNext ==
    \/ LivePut
    \/ LivePutLink
    \/ LiveDelete
    \/ LiveProgress
    \/ LiveStall

\* Every resubmission of a pending set is in the end followed by one of
\* which the store processes an item.
LiveSpec == LiveInit /\ [][LiveNext]_vars /\ WF_vars(LiveProgress)

(***************************************************************************)
(* The retry loop with a store that may leave any part of a batch          *)
(* unprocessed and may fail any batch call, any number of times in a run:  *)
(* several calls of one run can end with the store's error.                *)
(***************************************************************************)
\* One BatchWriteItem of the retry loop that returns an error: the call
\* returns it.
BatchWriteItemFailed ==
    /\ pc = "batch"
    /\ calls' = IF calls < MaxCalls THEN calls + 1 ELSE calls
    /\ Return(Error(ErrStore))
    /\ UNCHANGED <<SpecialCharacter, initOnce, table, op, pre, faults>>
    /\ UNCHANGED peer

TornKeys == {<<StrA, StrB>>, <<StrA, StrC>>}

TornInit == InitOver(SpecialCharacters)

TornPut == \E key \in TornKeys : Put(key, Alice(SC))

TornStoreWrites ==
    \E processed \in SUBSET (1..Len(input)) : BatchWriteItemRetried(processed)

TornStoreFails == BatchWriteItemFailed

TornNext ==
    \/ TornPut
    \/ TornStoreWrites
    \/ TornStoreFails

TornSpec == TornInit /\ [][TornNext]_vars

(***************************************************************************)
(* Two callers of one Tree, each with one Put on the same path, and a      *)
(* store that returns no error and may leave any part of a batch           *)
(* unprocessed.  One caller runs at a time; peer holds the call of the     *)
(* other, and the callers change places between any two steps.  What a     *)
(* call computes before its first BatchWriteItem touches only its own      *)
(* variables and the Tree's initOnce, a sync.Once.                         *)
(***************************************************************************)
RacePath == <<StrA, StrB>>

RaceValues(sc) ==
    {AccountT(sc, StrAlice, EmptyString, StrBob, StrFalse, StrFalse), Bob(sc)}

\* The running caller and the other one change places.
Yield ==
    /\ peer' = [pc |-> pc, op |-> op, writeRequests |-> writeRequests, i |-> i,
                input |-> input, calls |-> calls, ret |-> ret, pre |-> pre]
    /\ pc' = peer.pc
    /\ op' = peer.op
    /\ writeRequests' = peer.writeRequests
    /\ i' = peer.i
    /\ input' = peer.input
    /\ calls' = peer.calls
    /\ ret' = peer.ret
    /\ pre' = peer.pre
    /\ UNCHANGED <<SpecialCharacter, initOnce, table, faults>>

RaceInit == InitOver(SpecialCharacters)

\* A caller that has made no call puts a value the other one does not put.
RacePut ==
    /\ op.name = "none"
    /\ \E item \in RaceValues(SC) \ {peer.op.item} : Put(RacePath, item)

RaceStoreWrites ==
    \E processed \in SUBSET (1..Len(input)) : BatchWriteItemRetried(processed)

RaceNext ==
    \/ RacePut
    \/ RaceStoreWrites
    \/ Yield

RaceSpec == RaceInit /\ [][RaceNext]_vars

(***************************************************************************)
(* The trees of two special characters with keys of one and two parts, of  *)
(* which some have a part that ends with, contains or is the special       *)
(* character: written unchecked, their rows would lie where the rows of    *)
(* other paths lie.                                                        *)
(***************************************************************************)
SepSpecialCharacters == {EmptyString, StrX}

SepKeys(sc) ==
    {<<StrA>>, <<StrA, StrB>>, <<StrA \o sc>>, <<StrA \o sc \o StrB>>, <<StrA, sc>>}

SepInit == InitOver(SepSpecialCharacters)

SepPut == \E key \in SepKeys(SC) : Put(key, Alice(SC))

SepPutLink == \E key \in SepKeys(SC) : PutLink(key, <<StrA>>)

SepStoreWrites ==
    \E processed \in SUBSET (1..Len(input)) : BatchWriteItemRetried(processed)

SepList == \E keyPrefix \in {<<>>, <<StrA>>} : List(keyPrefix, 0, -1)

SepNext ==
    \/ SepPut
    \/ SepPutLink
    \/ SepStoreWrites
    \/ SepList

SepSpec == SepInit /\ [][SepNext]_vars

(***************************************************************************)
(* Vocabulary of the properties.                                           *)
(***************************************************************************)
\* The last call was name and has returned.
Returned(name) == pc = "idle" /\ op.name = name

\* The value that callers of Get pass in the tree of this module's Spec.
Blank == ZeroValue(Alice(SC))

\* The object row of a path, as the package documentation lays it out:
\* Key is the special character before every part, Child the special character.
RECURSIVE FullKey(_, _)
FullKey(path, sc) ==
    IF Len(path) = 0 THEN EmptyString
    ELSE (sc \o Head(path)) \o FullKey(Tail(path), sc)

ObjectRow(tbl, path) ==
    IF <<FullKey(path, SC), SC>> \in DOMAIN tbl
    THEN tbl[<<FullKey(path, SC), SC>>] ELSE <<>>

\* An object or a link is stored at the path.
StoredAt(tbl, path) == Len(path) > 0 /\ DOMAIN ObjectRow(tbl, path) # {}

\* The names List visits when itemFunc always continues and the query succeeds.
Visits(tbl, keyPrefix) ==
    LET calls_ == ListOp(tbl, keyPrefix, SC, 0, -1)
    IN  [n \in 1..Len(calls_) |-> calls_[n].item]

Visited(tbl, keyPrefix) ==
    {Visits(tbl, keyPrefix)[n] : n \in 1..Len(Visits(tbl, keyPrefix))}

\* s occurs in part, stated by positions.
Occurs(s, part) ==
    \E from \in 1..Len(part) :
        /\ from + Len(s) - 1 <= Len(part)
        /\ \A n \in 1..Len(s) : part[from + n - 1] = s[n]

HasReservedPart(path) == \E n \in 1..Len(path) : Occurs(SC, path[n])

\* The serializer and the deserializer of a value agree on it.
CodecRoundTrips(v) ==
    /\ MarshalDynamoDB(v).err = Nil
    /\ UnmarshalDynamoDB(ZeroValue(v), MarshalDynamoDB(v).attributes)
           = [err |-> Nil, val |-> v]

\* The names of the attributes the serializer produces for a value.
SerializedNames(v) == DOMAIN MarshalDynamoDB(v).attributes

(***************************************************************************)
(* C1.  Round trip: when Put(p, v) has returned nil, for a non-empty p     *)
(* without the special character and a v whose attribute names do not      *)
(* start with it, Get(p) returns nil and yields a value equal to v.  The   *)
(* values are those on which the caller's serializer and deserializer      *)
(* themselves agree.                                                       *)
(***************************************************************************)
C1_RoundTrip ==
    (/\ Returned("Put") /\ ret.err = Nil
     /\ Len(op.key) > 0 /\ ~HasReservedPart(op.key)
     /\ \A n \in SerializedNames(op.item) : ~HasPrefix(n, SC)
     /\ CodecRoundTrips(op.item))
    => GetOp(table, op.key, ZeroValue(op.item), SC, 0)
           = [err |-> Nil, val |-> op.item]

\* Put stored a value whose serializer names an attribute Key, and Get
\* yields the flattened path in its place.
C1_FailingInput ==
    /\ Returned("Put") /\ ret.err = Nil
    /\ op.key = <<StrA>> /\ op.item = KeyedT(StrAlice)
    /\ CodecRoundTrips(op.item)
    /\ GetOp(table, op.key, ZeroValue(op.item), SC, 0)
           = [err |-> Nil, val |-> KeyedT(FullKey(op.key, SC))]

(***************************************************************************)
(* C2.  Link transparency: when PutLink(p, t) has returned nil and an      *)
(* object is stored at t, Get(p) returns that object; when t is itself a   *)
(* link whose chain ends at an object, Get(p) returns what Get(t) returns. *)
(***************************************************************************)
C2_LinkTransparency ==
    (Returned("PutLink") /\ ret.err = Nil)
    => /\ (StoredAt(table, op.target) /\ SC \notin DOMAIN ObjectRow(table, op.target))
          => GetOp(table, op.key, Blank, SC, 0)
                 = UnmarshalDynamoDB(Blank, ObjectRow(table, op.target))
       /\ GetOp(table, op.target, Blank, SC, 0).err = Nil
          => GetOp(table, op.key, Blank, SC, 0) = GetOp(table, op.target, Blank, SC, 0)

\* A link to a link to an object: Get follows two links to Alice.
C2_Witness ==
    /\ Returned("PutLink") /\ ret.err = Nil
    /\ op.key = <<StrA, StrC>> /\ op.target = <<StrA, StrB>>
    /\ SC \in DOMAIN ObjectRow(table, <<StrA, StrB>>)
    /\ GetOp(table, op.key, Blank, SC, 0) = [err |-> Nil, val |-> Alice(SC)]

(***************************************************************************)
(* C3.  GetLink round trip: when PutLink(p, t) has returned nil, GetLink(p) *)
(* returns nil and a path equal to t, part for part, also when t is itself *)
(* a link.                                                                 *)
(***************************************************************************)
C3_GetLinkRoundTrip ==
    (Returned("PutLink") /\ ret.err = Nil)
    => GetLinkOp(table, op.key, SC, FALSE) = [err |-> Nil, key |-> op.target]

\* PutLink stored the path of no parts as target, and GetLink returns a path
\* of one empty part.
C3_FailingInput ==
    /\ Returned("PutLink") /\ ret.err = Nil
    /\ op.target = <<>>
    /\ GetLinkOp(table, op.key, SC, FALSE) = [err |-> Nil, key |-> <<EmptyString>>]

\* For the targets of one part or more the round trip holds, links included.
C3_GetLinkRoundTripOfParts ==
    (Returned("PutLink") /\ ret.err = Nil /\ Len(op.target) >= 1)
    => GetLinkOp(table, op.key, SC, FALSE) = [err |-> Nil, key |-> op.target]

(***************************************************************************)
(* C4.  Delete then fetch: when Delete(p) has returned nil for a p of one  *)
(* or more parts at which an object or a link was stored, Get(p) fails     *)
(* with ErrNotFound.                                                       *)
(***************************************************************************)
C4_DeleteThenGet ==
    (/\ Returned("Delete") /\ ret.err = Nil
     /\ Len(op.key) >= 1 /\ StoredAt(pre, op.key))
    => GetOp(table, op.key, Blank, SC, 0).err = ErrNotFound

\* Delete of a stored path of one part returned nil without a fault of the
\* store, and Get still finds the object.
C4_FailingInput ==
    /\ Returned("Delete") /\ ret.err = Nil /\ faults = 0
    /\ op.key = <<StrA>> /\ StoredAt(pre, op.key)
    /\ table = pre
    /\ GetOp(table, op.key, Blank, SC, 0) = [err |-> Nil, val |-> Alice(SC)]

\* For the stored paths of two parts or more Get fails with ErrNotFound.
C4_DeleteThenGetBelowRoot ==
    (/\ Returned("Delete") /\ ret.err = Nil
     /\ Len(op.key) >= 2 /\ StoredAt(pre, op.key))
    => GetOp(table, op.key, Blank, SC, 0).err = ErrNotFound

(***************************************************************************)
(* C5.  Listing scope: after Put, PutLink and Delete calls that succeeded,  *)
(* List(prefix) visits exactly the names c with an object or a link stored *)
(* at prefix + [c], each once and in ascending order.                      *)
(***************************************************************************)
Ascending(names) ==
    \A n \in 1..(Len(names) - 1) : StrLess(names[n], names[n + 1])

C5_ListingScope ==
    (pc = "idle" /\ faults = 0)
    => \A keyPrefix \in ReadKeys :
          /\ Ascending(Visits(table, keyPrefix))
          /\ \A c \in {StrA, StrB, StrC, SC} :
                c \in Visited(table, keyPrefix)
                    <=> StoredAt(table, Append(keyPrefix, c))

\* An object is stored at a path of one part, and List of the root visits
\* nothing.
C5_FailingInput ==
    /\ pc = "idle" /\ faults = 0
    /\ StoredAt(table, <<StrA>>)
    /\ Visits(table, <<>>) = <<>>

(***************************************************************************)
(* C6.  Every prefix level is enumerable: when Put(p, v) or PutLink(p, t)  *)
(* has returned nil, List of each proper prefix of p, the root included,   *)
(* visits the part of p that follows the prefix.                           *)
(***************************************************************************)
C6_PrefixLevels ==
    ((Returned("Put") \/ Returned("PutLink")) /\ ret.err = Nil)
    => \A n \in 1..Len(op.key) :
          op.key[n] \in Visited(table, SubSeq(op.key, 1, n - 1))

\* Put of a path of two parts returned nil: List of the first part visits
\* the second, and List of the root does not visit the first.
C6_FailingInput ==
    /\ Returned("Put") /\ ret.err = Nil
    /\ op.key = <<StrA, StrC>>
    /\ StrC \in Visited(table, <<StrA>>)
    /\ StrA \notin Visited(table, <<>>)

(***************************************************************************)
(* C7.  Deletion locality: when Delete(p) has returned nil for a stored p, *)
(* List(parent(p)) no longer visits last(p), List of every other prefix    *)
(* visits what it visited before, and List(parent(p)) still visits every   *)
(* other name it visited before.                                           *)
(***************************************************************************)
Parent(path) == SubSeq(path, 1, Len(path) - 1)

Last(path) == path[Len(path)]

C8_ReservedInKey ==
    /\ Returned("Put")
       => (ret.err = ErrReservedCharacterInKey <=> HasReservedPart(op.key))
    /\ Returned("PutLink")
       => (ret.err = ErrReservedCharacterInKey
              <=> (HasReservedPart(op.key) \/ HasReservedPart(op.target)))

\* PutLink was refused for its target alone, the special character being the
\* last byte of a part.
C8_Witness ==
    /\ Returned("PutLink") /\ ret.err = ErrReservedCharacterInKey
    /\ ~HasReservedPart(op.key)
    /\ HasReservedPart(op.target)
    /\ table # <<>>

(***************************************************************************)
(* C9.  Reserved character in attributes: for a key without the special    *)
(* character and a value that serializes without error, Put returns        *)
(* ErrReservedCharacterInAttribute if and only if a name the serializer    *)
(* produced starts with the special character, whatever that character is. *)
(***************************************************************************)
C9_ReservedInAttribute ==
    (/\ Returned("Put")
     /\ ~HasReservedPart(op.key)
     /\ MarshalDynamoDB(op.item).err = Nil)
    => (ret.err = ErrReservedCharacterInAttribute
           <=> \E n \in SerializedNames(op.item) :
                  /\ Len(n) >= Len(SC)
                  /\ \A k \in 1..Len(SC) : n[k] = SC[k])

\* With the special character K, Put refuses a value none of whose attribute
\* names starts with K: the name Key, which Put itself adds, does.
C9_FailingInput ==
    /\ Returned("Put") /\ ret.err = ErrReservedCharacterInAttribute
    /\ SC = StrK
    /\ op.key = <<StrA>> /\ op.item = Alice(SC)
    /\ \A n \in SerializedNames(op.item) : ~HasPrefix(n, SC)

(***************************************************************************)
(* C10.  Validation before write: when Put or PutLink has returned         *)
(* ErrReservedCharacterInKey, ErrReservedCharacterInAttribute or the       *)
(* serializer's error, it has made no BatchWriteItem call and the items of *)
(* the table are those from before the call.                               *)
(***************************************************************************)
C10_ValidationBeforeWrite ==
    (/\ Returned("Put") \/ Returned("PutLink")
     /\ ret.err \in {ErrReservedCharacterInKey, ErrReservedCharacterInAttribute,
                     ErrCodec})
    => (calls = 0 /\ table = pre)

\* Put refused a value for an attribute name while the table held items.
C10_Witness ==
    /\ Returned("Put") /\ ret.err = ErrReservedCharacterInAttribute
    /\ ~HasReservedPart(op.key)
    /\ table # <<>>
    /\ calls = 0

(***************************************************************************)
(* C11.  Non-link rejection: GetLink(p) fails with ErrNotFound when no     *)
(* object row exists at p, fails with ErrNotLink when the row at p was     *)
(* written by Put, and returns a target, without error, only when the row  *)
(* was written by PutLink.  The row at p was written by the running or     *)
(* last call when it differs from the row at p when that call began.       *)
(***************************************************************************)
WrittenAt(path) ==
    /\ ObjectRow(table, path) # <<>>
    /\ ObjectRow(table, path) # ObjectRow(pre, path)

C11_NonLinkRejection ==
    \A path \in ReadKeys :
        /\ ObjectRow(table, path) = <<>>
           => GetLinkOp(table, path, SC, FALSE).err = ErrNotFound
        /\ (op.name = "Put" /\ WrittenAt(path))
           => GetLinkOp(table, path, SC, FALSE).err = ErrNotLink
        /\ (op.name = "PutLink" /\ WrittenAt(path))
           => GetLinkOp(table, path, SC, FALSE).err = Nil
        /\ (op.name \notin {"Put", "PutLink"})
           => (ObjectRow(table, path) = <<>>
                  \/ ObjectRow(table, path) = ObjectRow(pre, path))

\* GetLink was called on the path of an object that a link points to, and
\* returned ErrNotLink, while GetLink of the link returns that path.
C11_Witness ==
    /\ Returned("GetLink") /\ ret.err = ErrNotLink
    /\ op.key = <<StrA, StrB>>
    /\ StoredAt(table, op.key)
    /\ GetOp(table, <<StrA, StrC>>, Blank, SC, 0) = [err |-> Nil, val |-> Alice(SC)]
    /\ GetLinkOp(table, <<StrA, StrC>>, SC, FALSE) = [err |-> Nil, key |-> op.key]

(***************************************************************************)
(* C12.  Dangling links: PutLink(p, t) fails for no reason that lies in    *)
(* what is stored at t; when PutLink(p, t) has returned nil, or Delete(t)  *)
(* has returned nil while a link to t stood at p, and no object row is at  *)
(* t, then Get(p) fails with ErrNotFound, GetLink(p) returns t, and        *)
(* List(parent(p)) visits last(p).                                         *)
(***************************************************************************)
\* The link that PutLink(path, target) wrote stands in tbl.
LinkStands(tbl, path, target) ==
    /\ SC \in DOMAIN ObjectRow(tbl, path)
    /\ ObjectRow(tbl, path)[SC].S = SC \o Join(target, SC)

Dangles(path, target) ==
    /\ GetOp(table, path, Blank, SC, 0).err = ErrNotFound
    /\ GetLinkOp(table, path, SC, FALSE) = [err |-> Nil, key |-> target]
    /\ Last(path) \in Visited(table, Parent(path))

C12_DanglingLinks ==
    /\ (Returned("PutLink") /\ ret.err # Nil) => ret.err = ErrStore
    /\ (Returned("PutLink") /\ ret.err = Nil /\ ObjectRow(table, op.target) = <<>>)
       => Dangles(op.key, op.target)
    /\ (Returned("Delete") /\ ret.err = Nil /\ ObjectRow(table, op.key) = <<>>)
       => \A path \in LinkKeys \ {op.key} :
             (/\ LinkStands(pre, path, op.key)
              /\ Last(path) \in Visited(pre, Parent(path)))
             => Dangles(path, op.key)

\* PutLink of a path of one part to a path at which nothing is stored
\* returned nil, without a fault of the store: Get fails with ErrNotFound,
\* GetLink returns the target, and List of the root does not visit the link.
C12_FailingInput ==
    /\ Returned("PutLink") /\ ret.err = Nil /\ faults = 0
    /\ op.key = <<StrA>> /\ op.target = <<StrA, StrB>>
    /\ ObjectRow(table, op.target) = <<>>
    /\ GetOp(table, op.key, Blank, SC, 0).err = ErrNotFound
    /\ GetLinkOp(table, op.key, SC, FALSE) = [err |-> Nil, key |-> op.target]
    /\ Visits(table, <<>>) = <<>>

\* For links of two parts to targets of one part or more the claim holds.
C12_DanglingLinksBelowRoot ==
    /\ (Returned("PutLink") /\ ret.err = Nil /\ ObjectRow(table, op.target) = <<>>
        /\ Len(op.key) >= 2 /\ Len(op.target) >= 1)
       => Dangles(op.key, op.target)
    /\ (Returned("Delete") /\ ret.err = Nil /\ ObjectRow(table, op.key) = <<>>)
       => \A path \in LinkKeys \ {op.key} :
             (/\ LinkStands(pre, path, op.key)
              /\ Last(path) \in Visited(pre, Parent(path)))
             => Dangles(path, op.key)

\* Delete removed the object that a link of two parts points to.
C12_DeletedTarget ==
    /\ Returned("Delete") /\ ret.err = Nil
    /\ op.key = <<StrA, StrB>> /\ ObjectRow(table, op.key) = <<>>
    /\ LinkStands(pre, <<StrA, StrC>>, op.key)
    /\ GetOp(pre, <<StrA, StrC>>, Blank, SC, 0).err = Nil
    /\ Dangles(<<StrA, StrC>>, op.key)

(***************************************************************************)
(* C13.  List visit protocol: in one List call itemFunc is not called      *)
(* again after it has returned false, and it is called with an error at    *)
(* most once, with the empty name, as the last call.  stopAt is the call   *)
(* at which itemFunc returns false, failAfter the items the query delivers *)
(* before it fails.                                                        *)
(***************************************************************************)
VisitProtocol(visits, stopAt) ==
    /\ stopAt >= 1 => Len(visits) <= stopAt
    /\ \A n \in 1..Len(visits) :
          visits[n].err # Nil => (n = Len(visits) /\ visits[n].item = EmptyString)

C13_VisitProtocol ==
    /\ \A keyPrefix \in ReadKeys, stopAt \in 0..3, failAfter \in -1..2 :
          VisitProtocol(ListOp(table, keyPrefix, SC, stopAt, failAfter), stopAt)
    /\ Returned("List")
       => \E stopAt \in 0..1, failAfter \in -1..1 :
             /\ ret.visits = ListOp(table, op.key, SC, stopAt, failAfter)
             /\ VisitProtocol(ret.visits, stopAt)

\* List was called on a prefix of two children; itemFunc returned false at
\* its first call and was not called again, though the query would have
\* failed after that item.
C13_Witness ==
    /\ Returned("List")
    /\ Visits(table, op.key) = <<StrB, StrC>>
    /\ ret.visits = <<[item |-> StrB, err |-> Nil]>>
    /\ ListOp(table, op.key, SC, 1, 1) = ret.visits
    /\ ListOp(table, op.key, SC, 0, 1)
           = <<[item |-> StrB, err |-> Nil], [item |-> EmptyString, err |-> ErrStore]>>
    /\ ListOp(table, op.key, SC, 3, 0) = <<[item |-> EmptyString, err |-> ErrStore]>>

(***************************************************************************)
(* C14.  Object and directory coexist independently: Put(q, v) and         *)
(* PutLink(q, t) do not change the names List(q) visits, in no step of     *)
(* theirs; and storing below q does not change the object row of q: Get(q) *)
(* still fails with ErrNotFound when nothing was stored at q itself.       *)
(***************************************************************************)
IsProperPrefix(q, path) ==
    Len(q) < Len(path) /\ SubSeq(path, 1, Len(q)) = q

C14_ObjectAndDirectory ==
    (op.name \in {"Put", "PutLink"})
    => /\ Visits(table, op.key) = Visits(pre, op.key)
       /\ \A q \in ReadKeys :
             IsProperPrefix(q, op.key)
             => /\ ObjectRow(table, q) = ObjectRow(pre, q)
                /\ ObjectRow(pre, q) = <<>>
                   => GetOp(table, q, Blank, SC, 0).err = ErrNotFound

\* Put stored an object at a path that had two children and no object: Get
\* of the path failed with ErrNotFound before, and List visits the same two
\* children before and after.
C14_Witness ==
    /\ Returned("Put") /\ ret.err = Nil
    /\ op.key = <<StrA>>
    /\ GetOp(pre, op.key, Blank, SC, 0).err = ErrNotFound
    /\ GetOp(table, op.key, Blank, SC, 0).err = Nil
    /\ Visits(pre, op.key) = <<StrB, StrC>>
    /\ Visits(table, op.key) = <<StrB, StrC>>

(***************************************************************************)
(* C15.  Codec errors are propagated verbatim: when the serializer fails   *)
(* on the item of a Put whose key has passed the loop over its parts, Put  *)
(* returns the serializer's error; when Get finds an object row at p, or   *)
(* at the target of the link at p, and the deserializer fails on that row, *)
(* Get returns the deserializer's error; Get leaves the table as it was.   *)
(***************************************************************************)
\* The row Get hands to the deserializer: the object row of the path, or of
\* the target of the link that stands at the path; <<>> when there is none.
RowToDecode(tbl, path) ==
    IF ObjectRow(tbl, path) = <<>> THEN <<>>
    ELSE IF SC \notin DOMAIN ObjectRow(tbl, path) THEN ObjectRow(tbl, path)
    ELSE IF \E target \in CodecTargets(SC) :
                /\ LinkStands(tbl, path, target)
                /\ ObjectRow(tbl, target) # <<>>
                /\ SC \notin DOMAIN ObjectRow(tbl, target)
    THEN ObjectRow(tbl, CHOOSE target \in CodecTargets(SC) :
                            LinkStands(tbl, path, target))
    ELSE <<>>

C15_CodecErrors ==
    /\ (Returned("Put") /\ ~HasReservedPart(op.key)
                        /\ MarshalDynamoDB(op.item).err # Nil)
       => ret.err = MarshalDynamoDB(op.item).err
    /\ Returned("Get") => table = pre
    /\ (Returned("Get") /\ ret.err # ErrStore
                        /\ RowToDecode(table, op.key) # <<>>
                        /\ UnmarshalDynamoDB(op.item, RowToDecode(table, op.key)).err # Nil)
       => ret.err = UnmarshalDynamoDB(op.item, RowToDecode(table, op.key)).err

\* Get followed a link to an object on which the deserializer fails, and
\* returned the deserializer's error.
C15_Witness ==
    /\ Returned("Get") /\ ret.err = ErrCodec
    /\ op.key = <<StrB>>
    /\ LinkStands(table, op.key, <<StrA>>)
    /\ ObjectRow(table, <<StrA>>)[StrUnmarshalFailPlease] = [BOOL |-> StrTrue]

(***************************************************************************)
(* C16.  Row encoding of Put, as claimed: for a path of N parts Put issues *)
(* N + 1 put mutations: for each i in 0..N-1 an edge row with partition    *)
(* key delimiter + join(path[0..i-1], delimiter) + delimiter and sort key  *)
(* path[i], and an object row with partition key delimiter + join(path,    *)
(* delimiter) and sort key delimiter that carries the serialized           *)
(* attributes.  (Positions are counted from 1 here.)                       *)
(***************************************************************************)
ObjectMutation(path, item) ==
    PutRequest((AttrKey :> [S |-> SC \o Join(path, SC)])
               @@ (AttrChild :> [S |-> SC])
               @@ MarshalDynamoDB(item).attributes)

ClaimedEdgeMutation(path, n) ==
    PutRequest((AttrKey :> [S |-> (SC \o Join(SubSeq(path, 1, n - 1), SC)) \o SC])
               @@ (AttrChild :> [S |-> path[n]]))

EdgeMutation(path, n) ==
    PutRequest((AttrKey :> [S |-> IF n = 1 THEN SC
                                  ELSE (SC \o Join(SubSeq(path, 1, n - 1), SC)) \o SC])
               @@ (AttrChild :> [S |-> path[n]]))

LastEdgeKey(path) == ItemKey(EdgeMutation(path, Len(path)).PutRequest)

ObjectKey(path) == <<FullKey(path, SC), SC>>

AddressesRowsOfPut(path) ==
    /\ pc = "batch"
       => /\ Len(writeRequests) = 2
          /\ ItemKey(writeRequests[1].DeleteRequest) = LastEdgeKey(path)
          /\ ItemKey(writeRequests[2].DeleteRequest) = ObjectKey(path)
    /\ (pc = "idle" /\ ret.err = Nil)
       => (LastEdgeKey(path) \notin DOMAIN table /\ ObjectKey(path) \notin DOMAIN table)

C17_DeleteAddressesRows ==
    (op.name = "Delete" /\ Len(op.key) >= 1) => AddressesRowsOfPut(op.key)

\* Put and then Delete of a path of one part have returned nil, without a
\* fault of the store, and both rows of the path are still in the table.
C17_FailingInput ==
    /\ Returned("Delete") /\ ret.err = Nil /\ faults = 0
    /\ op.key = <<StrA>>
    /\ DeleteRequests(op.key, SC)
           = <<DeleteRequest((AttrKey :> [S |-> <<194, 166, 194, 166>>])
                             @@ (AttrChild :> [S |-> <<97>>])),
               DeleteRequest((AttrKey :> [S |-> <<194, 166, 194, 166, 97>>])
                             @@ (AttrChild :> [S |-> <<194, 166>>]))>>
    /\ DOMAIN table = {<<<<194, 166>>, <<97>>>>, <<<<194, 166, 97>>, <<194, 166>>>>}

\* For the paths of two parts or more the claim holds.
C17_DeleteAddressesRowsBelowRoot ==
    (op.name = "Delete" /\ Len(op.key) >= 2) => AddressesRowsOfPut(op.key)

(***************************************************************************)
(* C18.  Delete is not recursive and touches no ancestor: in every step of *)
(* Delete(p) the rows other than the last edge row and the object row of p *)
(* are those from before the call and no row is added; when an object is   *)
(* stored at p + [c], Get(p + [c]) returns it as before and List(p) visits *)
(* what it visited before.                                                 *)
(***************************************************************************)
C18_DeleteNotRecursive ==
    (op.name = "Delete")
    => /\ DOMAIN table \subseteq DOMAIN pre
       /\ \A k \in (DOMAIN pre) \ {LastEdgeKey(op.key), ObjectKey(op.key)} :
             k \in DOMAIN table /\ table[k] = pre[k]
       /\ Visits(table, op.key) = Visits(pre, op.key)
       /\ \A c \in {StrA, StrB, StrC} :
             (/\ StoredAt(pre, Append(op.key, c))
              /\ SC \notin DOMAIN ObjectRow(pre, Append(op.key, c)))
             => GetOp(table, Append(op.key, c), Blank, SC, 0)
                    = [err |-> Nil,
                       val |-> ConvertFromMap(ObjectRow(pre, Append(op.key, c)), Blank)]

\* Delete removed the two rows of a stored path of two parts that has a
\* stored child: the child is still returned by Get and visited by List, and
\* the row of the first part is still in the root.
C18_Witness ==
    /\ Returned("Delete") /\ ret.err = Nil
    /\ op.key = DeepPath(2)
    /\ StoredAt(pre, op.key) /\ ~StoredAt(table, op.key)
    /\ LastEdgeKey(op.key) \in DOMAIN pre /\ LastEdgeKey(op.key) \notin DOMAIN table
    /\ GetOp(table, DeepPath(3), Blank, SC, 0) = [err |-> Nil, val |-> Alice(SC)]
    /\ Visits(table, op.key) = <<StrA>>
    /\ <<SC, StrA>> \in DOMAIN table

(***************************************************************************)
(* C19.  Batch completeness: every BatchWriteItem call of Put, PutLink and *)
(* Delete carries at most 25 mutations; the chunks of Put and PutLink      *)
(* hold every computed mutation exactly once; the mutations of the chunks  *)
(* already left, and those of the current chunk that are no longer         *)
(* pending, have been processed by the store; and when Put or PutLink      *)
(* returns nil each of its N + 1 rows is in the table.                     *)
(***************************************************************************)
\* The values of i at which the chunk loop runs for w.
Starts(w) == {k * BatchSize : k \in {m \in 0..Len(w) : m * BatchSize < Len(w)}}

Processed(req) ==
    /\ ItemKey(req.PutRequest) \in DOMAIN table
    /\ table[ItemKey(req.PutRequest)] = req.PutRequest

StillPending(req) == \E m \in 1..Len(input) : input[m] = req

C19_BatchCompleteness ==
    /\ pc = "batch" => (Len(input) >= 1 /\ Len(input) <= 25)
    /\ (pc = "batch" /\ op.name \in {"Put", "PutLink"})
       => /\ Len(writeRequests) = Len(op.key) + 1
          /\ i \in Starts(writeRequests)
          /\ \A n \in 1..Len(writeRequests) :
                Cardinality({st \in Starts(writeRequests) :
                    /\ n - st >= 1 /\ n - st <= Len(Chunk(writeRequests, st))
                    /\ Chunk(writeRequests, st)[n - st] = writeRequests[n]}) = 1
          /\ \A m \in 1..Len(input) :
                \E n \in 1..Len(Chunk(writeRequests, i)) :
                    Chunk(writeRequests, i)[n] = input[m]
          /\ \A n \in 1..Len(writeRequests) :
                (n <= i \/ (n <= i + BatchSize /\ ~StillPending(writeRequests[n])))
                => Processed(writeRequests[n])
    /\ ((Returned("Put") \/ Returned("PutLink")) /\ ret.err = Nil)
       => /\ \A n \in 1..Len(op.key) : Processed(EdgeMutation(op.key, n))
          /\ Returned("Put") => Processed(ObjectMutation(op.key, op.item))
          /\ Returned("PutLink") => LinkStands(table, op.key, op.target)

\* Put of the path of fifty parts into an empty table has returned nil after
\* four batch calls, one of which left an item unprocessed, and its 51 rows
\* are in the table.
C19_Witness ==
    /\ Returned("Put") /\ ret.err = Nil
    /\ op.key = LongPath /\ Len(op.key) = 50
    /\ pre = <<>>
    /\ calls = 4 /\ faults = 1
    /\ Cardinality(DOMAIN table) = 51

(***************************************************************************)
(* C20.  Batch retry termination: with a store that returns no error and   *)
(* that, of a pending set submitted again and again, in the end processes  *)
(* an item, Put, PutLink and Delete return nil; and the retry loop has no  *)
(* bound: a call returns only with the step of the store that processes    *)
(* what was pending of its last chunk, however many calls it has made.     *)
(***************************************************************************)
LastChunk == op.name = "Delete" \/ i + BatchSize >= Len(writeRequests)

C20_RetryTermination ==
    /\ (pc = "batch") ~> (pc = "idle" /\ ret.err = Nil)
    /\ [][(pc = "batch" /\ pc' = "idle")
             => (/\ ret'.err = Nil
                 /\ LastChunk
                 /\ table' = ApplyRequests(table, input))]_vars

\* Put made MaxCalls batch calls or more, of which the store processed
\* nothing, and is still in its retry loop with all it computed pending.
C20_Witness ==
    /\ pc = "batch" /\ op.name = "Put" /\ op.key = <<StrA, StrC>>
    /\ calls = MaxCalls
    /\ table = pre
    /\ input = writeRequests /\ Len(input) = 3

(***************************************************************************)
(* C21.  A hard error aborts without rollback: when a call of Put, PutLink *)
(* or Delete leaves its batch loop with an error, the error is the one of  *)
(* the store, the failed batch call is the call's last, and the table is   *)
(* as the earlier batch calls of the call left it; a call that has         *)
(* returned writes nothing more.                                           *)
(***************************************************************************)
C21_HardErrorAborts ==
    /\ [][(pc = "batch" /\ pc' = "idle" /\ ret'.err # Nil)
             => (/\ ret'.err = ErrStore
                 /\ calls' = calls + 1
                 /\ table' = table)]_vars
    /\ [][pc = "idle" => (table' = table /\ calls' = 0)]_vars

\* Put of the path of fifty parts into an empty table: the store processed
\* the first chunk and failed the second batch call; Put returned the error
\* and the 25 rows of the first chunk are in the table.
C21_Witness ==
    /\ Returned("Put") /\ ret.err = ErrStore
    /\ op.key = LongPath
    /\ pre = <<>>
    /\ calls = 2
    /\ Cardinality(DOMAIN table) = BatchSize
    /\ \A n \in 1..BatchSize : Processed(EdgeMutation(op.key, n))
    /\ ObjectRow(table, op.key) = <<>>

(***************************************************************************)
(* C22.  Torn state after a failed write: the store may process any part   *)
(* of a batch and may fail any batch call, and when Put(p, v) on a path at *)
(* which nothing was stored has returned the store's error, the table is   *)
(* the one from before the call with some of the N + 1 rows of the Put     *)
(* written over it, of which at least one row is as it was before.  Which  *)
(* rows are written is not fixed: edge rows without the object row, and    *)
(* the object row without an edge row, both occur (C22_Witness).           *)
(***************************************************************************)
\* tbl with the put requests of w at the positions in S written over it; the
\* requests of w have pairwise different keys.
WrittenOver(tbl, w, S) ==
    [k \in (DOMAIN tbl) \cup {ItemKey(w[n].PutRequest) : n \in S} |->
        IF \E n \in S : ItemKey(w[n].PutRequest) = k
        THEN w[CHOOSE n \in S : ItemKey(w[n].PutRequest) = k].PutRequest
        ELSE tbl[k]]

C22_TornState ==
    /\ pc = "batch"
       => /\ \A processed \in SUBSET (1..Len(input)) :
                ENABLED BatchWriteItemRetried(processed)
          /\ ENABLED BatchWriteItemFailed
    /\ (Returned("Put") /\ ret.err = ErrStore /\ ObjectRow(pre, op.key) = <<>>)
       => LET w == PutRequests(op.key, op.item, SC).writeRequests
          IN  /\ \E S \in SUBSET (1..Len(w)) : table = WrittenOver(pre, w, S)
              /\ \E n \in 1..Len(w) :
                    GetItem(table, ItemKey(w[n].PutRequest)[1], ItemKey(w[n].PutRequest)[2])
                        = GetItem(pre, ItemKey(w[n].PutRequest)[1],
                                  ItemKey(w[n].PutRequest)[2])

\* Two calls of Put on paths at which nothing was stored have returned the
\* store's error.  The first left the edge row of its last part without its
\* object row (only Put writes in this tree, and a Put that returns nil has
\* written its object row); the second, which has just returned, left its
\* object row without the edge row of its last part.
C22_Witness ==
    /\ Returned("Put") /\ ret.err = ErrStore
    /\ op.key = <<StrA, StrC>>
    /\ ObjectRow(pre, op.key) = <<>>
    /\ ObjectRow(table, op.key) = ObjectMutation(op.key, op.item).PutRequest
    /\ LastEdgeKey(op.key) \notin DOMAIN table
    /\ LastEdgeKey(<<StrA, StrB>>) \in DOMAIN table
    /\ ObjectRow(table, <<StrA, StrB>>) = <<>>

(***************************************************************************)
(* C23.  Link resolution termination: Get(p) returns when the chain of     *)
(* links that starts at p comes back to no path it has passed: the object  *)
(* at the end of the chain, or ErrNotFound at the first path without a     *)
(* row, after one GetItem per path of the chain; and Get(p) does not       *)
(* return when the chain comes back to a path it has passed, a link to its *)
(* own path included: nothing bounds the hops.                             *)
(***************************************************************************)
\* The chain of links from path: the paths passed, in order, and whether the
\* chain comes back to one of them.
RECURSIVE Hops(_, _, _)
Hops(tbl, path, passed) ==
    IF \E n \in 1..Len(passed) : passed[n] = path
    THEN [cycle |-> TRUE, reads |-> passed]
    ELSE IF \E target \in Targets : LinkStands(tbl, path, target)
    THEN Hops(tbl, CHOOSE target \in Targets : LinkStands(tbl, path, target),
              Append(passed, path))
    ELSE [cycle |-> FALSE, reads |-> Append(passed, path)]

C23_LinkResolution ==
    /\ \A p \in ReadKeys :
          LET h == Hops(table, p, <<>>)
              end == h.reads[Len(h.reads)]
              g == GetOp(table, p, Blank, SC, 0)
          IN  /\ h.cycle <=> g.err = Diverges
              /\ ~h.cycle
                 => /\ g = IF ObjectRow(table, end) = <<>>
                           THEN [err |-> ErrNotFound, val |-> Blank]
                           ELSE UnmarshalDynamoDB(Blank, ObjectRow(table, end))
                    /\ \A k \in 1..(Len(h.reads) + 1) :
                          GetOp(table, p, Blank, SC, k).err = ErrStore
                              <=> k <= Len(h.reads)
    /\ pc = "hung" <=> (op.name = "Get" /\ ret.err = Diverges)
    /\ pc = "hung" => (Hops(table, op.key, <<>>).cycle /\ ~ENABLED Next)
    /\ (Returned("Get") /\ Hops(table, op.key, <<>>).cycle) => ret.err = ErrStore

\* Get of a link to a link whose target is its own path: the chain passes
\* two paths and comes back to the second, and Get does not return.
C23_Witness ==
    /\ pc = "hung" /\ op.name = "Get"
    /\ op.key = <<StrA, StrC>>
    /\ LinkStands(table, <<StrA, StrC>>, <<StrA, StrB>>)
    /\ LinkStands(table, <<StrA, StrB>>, <<StrA, StrB>>)
    /\ Hops(table, op.key, <<>>)
           = [cycle |-> TRUE, reads |-> <<<<StrA, StrC>>, <<StrA, StrB>>>>]

(***************************************************************************)
(* C24.  Overwrite: when Put(p, v2) has returned nil on a path that held   *)
(* an object or a link, with all rows of p written before, the object row  *)
(* carries v2's attributes and beside the two keys nothing else (no link   *)
(* attribute, nothing of the earlier value), GetLink(p) fails with         *)
(* ErrNotLink and Get(p) yields v2; when PutLink(p, t) has returned nil on *)
(* such a path the row carries the two keys and the link attribute only;   *)
(* in both cases the edge rows are those from before the call.  The values *)
(* are those on which the caller's serializer and deserializer agree.      *)
(***************************************************************************)
\* The rows of the key parts (the rows that are not object rows).
EdgeRows(tbl) == [k \in {e \in DOMAIN tbl : e[2] # SC} |-> tbl[k]]

\* An object or a link is stored at the path, and the row of each of its
\* parts is there.
CompleteAt(tbl, path) ==
    /\ StoredAt(tbl, path)
    /\ \A n \in 1..Len(path) :
          ItemKey(EdgeMutation(path, n).PutRequest) \in DOMAIN tbl

OverwrittenByPut ==
    /\ DOMAIN ObjectRow(table, op.key) = SerializedNames(op.item) \cup {AttrKey, AttrChild}
    /\ \A n \in SerializedNames(op.item) :
          ObjectRow(table, op.key)[n] = MarshalDynamoDB(op.item).attributes[n]
    /\ GetLinkOp(table, op.key, SC, FALSE).err = ErrNotLink
    /\ GetOp(table, op.key, ZeroValue(op.item), SC, 0) = [err |-> Nil, val |-> op.item]
    /\ EdgeRows(table) = EdgeRows(pre)

OverwrittenByPutLink ==
    /\ DOMAIN ObjectRow(table, op.key) = {AttrKey, AttrChild, SC}
    /\ GetLinkOp(table, op.key, SC, FALSE) = [err |-> Nil, key |-> op.target]
    /\ EdgeRows(table) = EdgeRows(pre)

C24_Overwrite ==
    /\ (/\ Returned("Put") /\ ret.err = Nil
        /\ CompleteAt(pre, op.key) /\ CodecRoundTrips(op.item))
       => OverwrittenByPut
    /\ (Returned("PutLink") /\ ret.err = Nil /\ CompleteAt(pre, op.key))
       => OverwrittenByPutLink

\* Put stored a value whose serializer names an attribute Key over an
\* account: the object row holds the flattened path as Key, not the value's
\* attribute, and Get yields the flattened path in its place.
C24_FailingInput ==
    /\ Returned("Put") /\ ret.err = Nil
    /\ op.key = <<StrA>> /\ op.item = KeyedT(StrAlice)
    /\ CompleteAt(pre, op.key)
    /\ StrName \in DOMAIN ObjectRow(pre, op.key)
    /\ CodecRoundTrips(op.item)
    /\ ObjectRow(table, op.key)
           = (AttrKey :> [S |-> FullKey(op.key, SC)]) @@ (AttrChild :> [S |-> SC])
    /\ GetOp(table, op.key, ZeroValue(op.item), SC, 0)
           = [err |-> Nil, val |-> KeyedT(FullKey(op.key, SC))]

\* For the values whose serializer names neither Key nor Child the claim
\* holds.
C24_OverwriteOfOwnNames ==
    /\ (/\ Returned("Put") /\ ret.err = Nil
        /\ CompleteAt(pre, op.key) /\ CodecRoundTrips(op.item)
        /\ SerializedNames(op.item) \cap {AttrKey, AttrChild} = {})
       => OverwrittenByPut
    /\ (Returned("PutLink") /\ ret.err = Nil /\ CompleteAt(pre, op.key))
       => OverwrittenByPutLink

\* Put stored an account without the attribute FooXBar over an account that
\* had it, and PutLink made a link of a path that held an account.
C24_OverwrittenAccount ==
    /\ Returned("Put") /\ ret.err = Nil
    /\ CompleteAt(pre, op.key)
    /\ (StrFooCap \o SC \o StrBar) \in DOMAIN ObjectRow(pre, op.key)
    /\ (StrFooCap \o SC \o StrBar) \notin DOMAIN ObjectRow(table, op.key)
    /\ OverwrittenByPut

(***************************************************************************)
(* C25.  Error precedence in Put: Put returns the first failure in the     *)
(* order ErrReservedCharacterInKey, the serializer's error,                *)
(* ErrReservedCharacterInAttribute, the store's error.  A key with a part  *)
(* that contains the special character is refused without a call of the    *)
(* serializer, whatever the serializer would return; the serializer's      *)
(* error is returned whatever the attribute names are; and the store is    *)
(* called only for a Put that passed the three checks.                     *)
(***************************************************************************)
\* The check of the attribute names fails for the item: a name the
\* serializer produced, or one of the two names Put adds, starts with the
\* special character.
RefusedName(item) ==
    \E n \in SerializedNames(item) \cup {AttrKey, AttrChild} : HasPrefix(n, SC)

C25_ErrorPrecedence ==
    Returned("Put")
    => LET invalidKey == HasReservedPart(op.key)
           m == MarshalDynamoDB(op.item)
       IN  /\ invalidKey
              => /\ ret.err = ErrReservedCharacterInKey
                 /\ ~PutRequests(op.key, op.item, SC).marshalled
                 /\ calls = 0
           /\ (~invalidKey /\ m.err # Nil)
              => (ret.err = m.err /\ calls = 0)
           /\ (~invalidKey /\ m.err = Nil /\ RefusedName(op.item))
              => (ret.err = ErrReservedCharacterInAttribute /\ calls = 0)
           /\ ret.err = ErrStore
              => (~invalidKey /\ m.err = Nil /\ ~RefusedName(op.item) /\ calls >= 1)
           /\ ret.err \in {Nil, ErrReservedCharacterInKey, m.err,
                            ErrReservedCharacterInAttribute, ErrStore}

\* Put of a key with a part that contains the special character, and of a
\* value on which the serializer fails and for which the check of the
\* attribute names fails too (the special character is K), has returned
\* ErrReservedCharacterInKey without a call of the serializer.
C25_Witness ==
    /\ Returned("Put") /\ ret.err = ErrReservedCharacterInKey
    /\ SC = StrK
    /\ HasReservedPart(op.key)
    /\ MarshalDynamoDB(op.item).err = ErrCodec
    /\ RefusedName(op.item)
    /\ ~PutRequests(op.key, op.item, SC).marshalled
    /\ table # <<>>

(***************************************************************************)
(* C26.  Concurrent writers to one path: when two callers have run         *)
(* Put(p, v1) and Put(p, v2) with no error of the store, under every       *)
(* interleaving of their batch calls and retries, and both have returned,  *)
(* the object row of p is the row of v1 or the row of v2, whole; every     *)
(* edge row of p is in the table; and Get(p) yields v1 or v2.              *)
(***************************************************************************)
BothReturned ==
    /\ pc = "idle" /\ op.name = "Put"
    /\ peer.pc = "idle" /\ peer.op.name = "Put"

C26_ConcurrentWriters ==
    BothReturned
    => /\ ret.err = Nil /\ peer.ret.err = Nil
       /\ op.key = peer.op.key
       /\ ObjectRow(table, op.key)
              \in {ObjectMutation(op.key, op.item).PutRequest,
                   ObjectMutation(op.key, peer.op.item).PutRequest}
       /\ \A n \in 1..Len(op.key) : Processed(EdgeMutation(op.key, n))
       /\ GetOp(table, op.key, ZeroValue(op.item), SC, 0)
              \in {[err |-> Nil, val |-> op.item], [err |-> Nil, val |-> peer.op.item]}

\* Both callers have returned.  The store processed the object row of the
\* one caller first and left its edge rows unprocessed; the other caller
\* wrote its three rows in one batch call and returned; then the first
\* caller's retry wrote the edge rows and it returned last.  The object row
\* is that of the caller that returned first, and it has none of the
\* attribute FooXBar that only the other value has.
C26_Witness ==
    /\ BothReturned
    /\ calls = 2 /\ peer.calls = 1
    /\ op.item # peer.op.item
    /\ op.item = AccountT(SC, StrAlice, EmptyString, StrBob, StrFalse, StrFalse)
    /\ peer.pre # <<>>
    /\ ObjectRow(peer.pre, RacePath) = ObjectMutation(RacePath, op.item).PutRequest
    /\ ObjectRow(table, RacePath) = ObjectMutation(RacePath, peer.op.item).PutRequest
    /\ (StrFooCap \o SC \o StrBar) \notin DOMAIN ObjectRow(table, RacePath)

(***************************************************************************)
(* C27.  Key-space separation: for paths of non-empty parts without the    *)
(* special character (one character), the object row that Put or PutLink   *)
(* computes for a path has the key of the object row of no other path and  *)
(* of no edge row, and its edge rows have the key of no object row; in     *)
(* every reachable table each row whose Child is the special character is  *)
(* the object row of one such path and each other row carries the two keys *)
(* only; List visits the special character as the name of no child.        *)
(***************************************************************************)
\* Parts without the special characters of this module's trees: letters, two
\* letters, and the single bytes of the default special character.
SeparateParts == {StrA, StrB, StrA \o StrB, <<194>>, <<166>>}

SeparatePaths ==
    {<<a>> : a \in SeparateParts}
        \cup {<<a, b>> : a \in SeparateParts, b \in SeparateParts}
        \cup {<<a, b, c>> : a \in SeparateParts, b \in SeparateParts,
                             c \in SeparateParts}

\* The keys of the rows Put and PutLink compute for a path.
KeyOfObject(path) == <<KeyLoop(path, SC, 1, EmptyString, <<>>).pathKey, SC>>

KeysOfEdges(path) ==
    {ItemKey(KeyLoop(path, SC, 1, EmptyString, <<>>).writeRequests[n].PutRequest) :
        n \in 1..Len(path)}

C27_KeySpaceSeparation ==
    /\ \A q \in SeparatePaths : ~HasReservedPart(q)
    /\ (pc = "batch" /\ op.name \in {"Put", "PutLink"} /\ ~HasReservedPart(op.key))
       => LET n == Len(writeRequests)
              object == ItemKey(writeRequests[n].PutRequest)
              edges == {ItemKey(writeRequests[m].PutRequest) : m \in 1..(n - 1)}
          IN  \A q \in SeparatePaths :
                 /\ q # op.key => object # KeyOfObject(q)
                 /\ object \notin KeysOfEdges(q)
                 /\ KeyOfObject(q) \notin edges
    /\ \A k \in DOMAIN table :
          IF k[2] = SC
          THEN Cardinality({q \in SeparatePaths : KeyOfObject(q) = k}) = 1
          ELSE DOMAIN table[k] = {AttrKey, AttrChild}
    /\ \A keyPrefix \in {<<>>} \cup {q \in SeparatePaths : Len(q) <= 2} :
          SC \notin Visited(table, keyPrefix)
    /\ Returned("List")
       => \A n \in 1..Len(ret.visits) : ret.visits[n].item # SC

\* With the special character X: an object is stored at a and a link at
\* a/b, in four rows of four keys; Put of the part "aX" and of the part "X"
\* below a is refused; List of a has visited b alone.
C27_Witness ==
    /\ Returned("List") /\ op.key = <<StrA>>
    /\ SC = StrX
    /\ ret.visits = <<[item |-> StrB, err |-> Nil]>>
    /\ DOMAIN table = {<<StrX, StrA>>, <<StrX \o StrA, StrX>>,
                        <<StrX \o StrA \o StrX, StrB>>,
                        <<StrX \o StrA \o StrX \o StrB, StrX>>}
    /\ StrX \in DOMAIN ObjectRow(table, <<StrA, StrB>>)
    /\ StrX \notin DOMAIN ObjectRow(table, <<StrA>>)
    /\ PutRequests(<<StrA \o StrX>>, Alice(SC), SC).err = ErrReservedCharacterInKey
    /\ PutRequests(<<StrA, StrX>>, Alice(SC), SC).err = ErrReservedCharacterInKey

====
